---- MODULE Spec2Model ----
(***************************************************************************)
(* Model of the PPD georeferencing dashboard (src/app.py): the CSV         *)
(* normaliser load_data, the boundary loader load_shapes, the sidebar      *)
(* filter, the map component and the click handler, run as a Streamlit    *)
(* script that is re-executed from the top on every interaction.           *)
(***************************************************************************)
EXTENDS Integers, Sequences, FiniteSets, TLC

VARIABLES
    csv_file,       \* the patient file: [status, rows]; rows are raw CSV rows
    geojson_ok,     \* whether the boundary file can be read and reprojected
    df_original,    \* app.py:64
    gdf_comunas,    \* app.py:65, "None" or the set of district names with a polygon
    widgets,        \* sidebar widget state: comunas, severidad, sexo, amp
    button,         \* the reset button was pressed for the current run (app.py:76)
    session_state,  \* st.session_state: last_clicked_commune_center or Absent
    component,      \* the st_folium component instance kept by the front end
    df_filtrado,    \* app.py:118-125
    map_data,       \* app.py:215, what st_folium returned in this run
    df_chart,       \* app.py:240
    view,           \* what the current run has put on the page so far
    pc,             \* position of the script run
    hist            \* history of the current interaction (for the properties)

vars == << csv_file, geojson_ok, df_original, gdf_comunas, widgets, button,
           session_state, component, df_filtrado, map_data, df_chart, view,
           pc, hist >>

----------------------------------------------------------------------------
(* Bounds of the model *)

\* longest table drawn as an input of load_data, of the filter and of the summary
MaxRows == 2
\* the count of runs one interaction has started saturates here
MaxRuns == 3

----------------------------------------------------------------------------
(* Program constants *)

COMUNAS_LLANQUIHUE ==
    { "Puerto Montt", "Calbuco", "Cochamó", "Fresia", "Frutillar",
      "Llanquihue", "Los Muermos", "Maullín", "Puerto Varas" }

COMUNA_MAPPING ==
    [ k \in { "Maullin", "Cochamo", "Rio Negro", "Hualaihue", "Futaleufu",
              "Chaiten", "Puqueldon" } |->
        CASE k = "Maullin"   -> "Maullín"
          [] k = "Cochamo"   -> "Cochamó"
          [] k = "Rio Negro" -> "Río Negro"
          [] k = "Hualaihue" -> "Hualaihué"
          [] k = "Futaleufu" -> "Futaleufú"
          [] k = "Chaiten"   -> "Chaitén"
          [] k = "Puqueldon" -> "Puqueldón" ]

cols_amputacion ==
    { "AMP_DEDO_MANO", "AMP_PULGAR", "AMP_DEDO_PIE", "AMP_A_NIVEL_PIE",
      "DESART_TOBILLO", "AMP_NIVEL_MALEOLO", "AMP_DEBAJO_RODILLA",
      "DESART_RODILLA", "AMP_ENCIMA_RODILLA" }

\* the layers of capas_severidad, in the order of the bar chart's categoryarray
Severidades == { "Menor", "Moderada", "Mayor" }

\* initial_zoom without and with a stored centre
ZoomInicial == 9
ZoomComuna == 10

Absent == [ present |-> FALSE, lat |-> << 0, 1 >>, lng |-> << 0, 1 >> ]
NaN == [ ok |-> FALSE, v |-> 0 ]
Num(n) == [ ok |-> TRUE, v |-> n ]

----------------------------------------------------------------------------
(* Sequence helpers *)

RECURSIVE SelectIdx(_, _, _)
\* the subsequence of s at the positions i >= from for which keep[i] holds
SelectIdx(s, keep, from) ==
    IF from > Len(s) THEN << >>
    ELSE (IF keep[from] THEN << s[from] >> ELSE << >>) \o SelectIdx(s, keep, from + 1)

Range(s) == { s[i] : i \in DOMAIN s }

RECURSIVE SumSeq(_)
SumSeq(s) == IF s = << >> THEN 0 ELSE Head(s) + SumSeq(Tail(s))

RECURSIVE SumOver(_, _)
\* sum of f over the finite set S of its domain
SumOver(f, S) ==
    IF S = {} THEN 0
    ELSE LET c == CHOOSE x \in S : TRUE IN f[c] + SumOver(f, S \ {c})

RECURSIVE Gcd(_, _)
Gcd(a, b) == IF b = 0 THEN a ELSE Gcd(b, a % b)

Abs(n) == IF n < 0 THEN 0 - n ELSE n

\* the mean of a non-empty sequence of integers, as a reduced fraction
Mean(s) ==
    LET t == SumSeq(s)
        g == Gcd(Abs(t), Len(s))
    IN  << t \div g, Len(s) \div g >>

----------------------------------------------------------------------------
(* pd.to_numeric(..., errors='coerce') on one CSV cell, a sequence of        *)
(* characters: an optional sign, digits, at most one decimal point and at   *)
(* least one digit give a number; an empty cell or anything else gives NaN. *)

Digits == { "0", "1", "2", "3", "4", "5", "6", "7", "8", "9" }

DigitVal(c) ==
    CASE c = "0" -> 0 [] c = "1" -> 1 [] c = "2" -> 2 [] c = "3" -> 3
      [] c = "4" -> 4 [] c = "5" -> 5 [] c = "6" -> 6 [] c = "7" -> 7
      [] c = "8" -> 8 [] c = "9" -> 9

RECURSIVE IntVal(_)
\* the value of a sequence of digits
IntVal(ds) ==
    IF ds = << >> THEN 0
    ELSE IntVal(SubSeq(ds, 1, Len(ds) - 1)) * 10 + DigitVal(ds[Len(ds)])

to_numeric(cell) ==
    LET neg  == cell # << >> /\ cell[1] = "-"
        body == IF neg THEN Tail(cell) ELSE cell
        dots == { i \in DOMAIN body : body[i] = "." }
        dot  == IF dots = {} THEN Len(body) + 1 ELSE CHOOSE i \in dots : TRUE
        ent  == SubSeq(body, 1, dot - 1)
        frac == SubSeq(body, dot + 1, Len(body))
        \* the value in tenths of a degree: the first decimal is kept
        mag  == IntVal(ent) * 10 + (IF frac = << >> THEN 0 ELSE DigitVal(frac[1]))
    IN  IF /\ Cardinality(dots) <= 1
           /\ Range(ent) \cup Range(frac) \subseteq Digits
           /\ Len(ent) + Len(frac) >= 1
        THEN Num(IF neg THEN 0 - mag ELSE mag)
        ELSE NaN

----------------------------------------------------------------------------
(* load_data: the normaliser *)

\* df['Comuna'].replace(COMUNA_MAPPING)
replace(comuna) ==
    IF comuna \in DOMAIN COMUNA_MAPPING THEN COMUNA_MAPPING[comuna] ELSE comuna

\* df.dropna(subset=['lat', 'lng'])
dropna_lat_only(r) == r.lat.ok
dropna(r) == r.lat.ok /\ r.lng.ok

\* df['Comuna'].isin(COMUNAS_LLANQUIHUE)
isin_anything(comuna) == TRUE
isin_comunas(comuna) == comuna \in COMUNAS_LLANQUIHUE

\* the corrected name decides the scope and the stored name stays as read
normalize_keep_original(rows) ==
    LET inscope  == SelectIdx(rows,
                              [ i \in DOMAIN rows |-> isin_comunas(replace(rows[i].Comuna)) ],
                              1)
        coerced  == [ i \in DOMAIN inscope |->
                        [ inscope[i] EXCEPT !.lat = to_numeric(inscope[i].lat),
                                            !.lng = to_numeric(inscope[i].lng) ] ]
    IN  SelectIdx(coerced, [ i \in DOMAIN coerced |-> dropna(coerced[i]) ], 1)

\* the frame load_data returns for the rows read from the file (app.py:40-45);
\* every row keeps its index label idx, the position it had in the file
normalize(rows) ==
    LET replaced == [ i \in DOMAIN rows |->
                        [ rows[i] EXCEPT !.Comuna = replace(rows[i].Comuna) ] ]
        inscope  == SelectIdx(replaced,
                              [ i \in DOMAIN replaced |-> isin_comunas(replaced[i].Comuna) ],
                              1)
        coerced  == [ i \in DOMAIN inscope |->
                        [ inscope[i] EXCEPT !.lat = to_numeric(inscope[i].lat),
                                            !.lng = to_numeric(inscope[i].lng) ] ]
    IN  SelectIdx(coerced, [ i \in DOMAIN coerced |-> dropna(coerced[i]) ], 1)

\* load_data(csv_file_path): "raise" stands for the exception pd.read_csv
\* raises for a file that exists and cannot be read, which load_data does
\* not catch.  The file does not change while the page is open, so the value
\* st.cache_data keeps is the value a fresh call returns.
load_data(file) ==
    CASE file.status = "missing"    -> [ outcome |-> "empty", df |-> << >>, error |-> TRUE ]
      [] file.status = "unreadable" -> [ outcome |-> "raise", df |-> << >>, error |-> FALSE ]
      [] OTHER -> [ outcome |-> "frame", df |-> normalize(file.rows), error |-> FALSE ]

\* load_shapes(geojson_path): any failure is caught and None is returned
load_shapes(ok, names) ==
    IF ok THEN [ loaded |-> TRUE, names |-> names ]
    ELSE [ loaded |-> FALSE, names |-> {} ]

----------------------------------------------------------------------------
(* The filter, app.py:118-125 *)

\* df_filtrado[tipos_amp_seleccionados].sum(axis=1) > 0
amp_all_selected(r, amp) == \A c \in amp : r.amp[c] > 0
amp_any(r, amp) == SumOver(r.amp, amp) > 0

\* the three isin masks
mask_without_sexo(r, w) == r.Comuna \in w.comunas /\ r.Severidad \in w.severidad
mask(r, w) ==
    /\ r.Comuna \in w.comunas
    /\ r.Severidad \in w.severidad
    /\ r.Sexo \in w.sexo

filtrado(df, w) ==
    LET base == SelectIdx(df, [ i \in DOMAIN df |-> mask(df[i], w) ], 1)
    IN  IF w.amp # {}
        THEN SelectIdx(base, [ i \in DOMAIN base |-> amp_any(base[i], w.amp) ], 1)
        ELSE base

----------------------------------------------------------------------------
(* The click handler's data, app.py:226-240 *)

\* df_filtrado[df_filtrado['Comuna'] == clicked_commune]
df_comuna(df, clicked) ==
    SelectIdx(df, [ i \in DOMAIN df |-> df[i].Comuna = clicked ], 1)

\* groupby('Ultima registro severidad').size(): one entry per value that occurs
groupby_all_categories(dc) ==
    [ s \in Severidades |-> Cardinality({ i \in DOMAIN dc : dc[i].Severidad = s }) ]
groupby_size(dc) ==
    [ s \in { dc[i].Severidad : i \in DOMAIN dc } |->
        Cardinality({ i \in DOMAIN dc : dc[i].Severidad = s }) ]

NoChart == [ made |-> FALSE, counts |-> << >>, table |-> << >> ]

\* the chart frame and the table of a clicked district; nothing is built for
\* an empty name or a district without rows
summarize(df, clicked) ==
    LET dc == df_comuna(df, clicked)
    IN  IF clicked # "" /\ dc # << >>
        THEN [ made |-> TRUE, counts |-> groupby_size(dc), table |-> dc ]
        ELSE NoChart

\* [center_lat, center_lng] of app.py:233-235
center_first(dc) ==
    [ present |-> TRUE, lat |-> << dc[1].lat.v, 1 >>, lng |-> << dc[1].lng.v, 1 >> ]
center_of(dc) ==
    [ present |-> TRUE,
      lat |-> Mean([ i \in DOMAIN dc |-> dc[i].lat.v ]),
      lng |-> Mean([ i \in DOMAIN dc |-> dc[i].lng.v ]) ]

----------------------------------------------------------------------------
(* The map, app.py:134-220 *)

NoMap == [ shown |-> FALSE, key |-> << 0, 0 >>, center |-> Absent, zoom |-> 0,
           bordes |-> FALSE, markers |-> << >> ]

colores_severidad(s) ==
    CASE s = "Mayor" -> "red" [] s = "Moderada" -> "orange"
      [] s = "Menor" -> "green" [] OTHER -> "gray"

\* one marker per row whose severity has a layer
markers_of(df) ==
    LET rows == SelectIdx(df, [ i \in DOMAIN df |-> df[i].Severidad \in Severidades ], 1)
    IN  [ i \in DOMAIN rows |->
            [ idx |-> rows[i].idx, lat |-> rows[i].lat.v, lng |-> rows[i].lng.v,
              color |-> colores_severidad(rows[i].Severidad) ] ]

\* the map handed to st_folium for a non-empty df_filtrado
mapa(df, session, gdf) ==
    LET zoom == IF session.present THEN ZoomComuna ELSE ZoomInicial
        mid  == [ present |-> TRUE,
                  lat |-> Mean([ i \in DOMAIN df |-> df[i].lat.v ]),
                  lng |-> Mean([ i \in DOMAIN df |-> df[i].lng.v ]) ]
    IN  [ shown |-> TRUE,
          key |-> << Len(df), zoom >>,
          center |-> IF session.present THEN session ELSE mid,
          zoom |-> zoom,
          bordes |-> gdf.loaded,
          markers |-> markers_of(df) ]

----------------------------------------------------------------------------
(* The script, app.py:60-288.  One run goes load, sidebar, filter, map,     *)
(* click; st.stop() and the end of the script leave it idle, st.rerun()     *)
(* abandons the pass and starts the next one at the top.                    *)

Unset == [ set |-> FALSE, rows |-> << >> ]

EmptyView ==
    [ error |-> FALSE,        \* st.error of load_data, app.py:37
      exception |-> FALSE,    \* the traceback of an uncaught exception
      shape_error |-> FALSE,  \* st.error and st.info of load_shapes, app.py:56-57
      no_data |-> FALSE,      \* st.warning, app.py:68
      metric |-> -1,          \* st.metric, app.py:129
      no_results |-> FALSE,   \* st.warning, app.py:132
      map |-> NoMap,          \* st_folium, app.py:215
      header |-> "",          \* st.markdown, app.py:230
      chart |-> FALSE,        \* st.plotly_chart, app.py:257
      table |-> FALSE,        \* st.dataframe, app.py:274
      info |-> FALSE,         \* st.info, app.py:284
      expander |-> FALSE ]    \* st.expander, app.py:287

NoWidgets == [ drawn |-> FALSE, comunas |-> {}, severidad |-> {}, sexo |-> {}, amp |-> {} ]

NoComponent == [ id |-> NoMap, value |-> "" ]

Inc(n) == IF n < MaxRuns THEN n + 1 ELSE n

\* df_original.empty, app.py:67
never_empty(df) == FALSE
df_empty(df) == df = << >>

\* the options of the three multiselects, app.py:82-101
disponibles(df, col) == { df[i][col] : i \in DOMAIN df }

\* the district names (Comuna_Corregida) of the polygons in the boundary file
GeojsonComunas == { "Puerto Montt", "Maullín", "Fresia" }

\* st.rerun() raises the runner's RerunException, which no except clause of
\* the script catches
rerun_leaves_pass == TRUE

\* st.rerun(): the pass is abandoned, the page is run again from the top
Rerun ==
    /\ pc' = "load"
    /\ button' = FALSE

\* app.py:64-69
RunLoad ==
    /\ pc = "load"
    /\ LET r   == load_data(csv_file)
           gdf == load_shapes(geojson_ok, GeojsonComunas)
           v   == [ EmptyView EXCEPT !.error = r.error,
                                     !.exception = (r.outcome = "raise"),
                                     !.shape_error = ~gdf.loaded ]
       IN  /\ df_filtrado' = Unset
           /\ map_data' = ""
           /\ df_chart' = NoChart
           /\ IF r.outcome = "raise"
              THEN /\ view' = v
                   /\ hist' = [ hist EXCEPT !.halted = "exception" ]
                   /\ pc' = "idle"
                   /\ UNCHANGED << df_original, gdf_comunas >>
              ELSE /\ df_original' = r.df
                   /\ gdf_comunas' = gdf
                   /\ IF df_empty(r.df)
                      THEN /\ view' = [ v EXCEPT !.no_data = TRUE ]
                           /\ hist' = [ hist EXCEPT !.halted = "stop" ]
                           /\ pc' = "idle"
                      ELSE /\ view' = v
                           /\ hist' = hist
                           /\ pc' = "sidebar"
    /\ UNCHANGED << csv_file, geojson_ok, widgets, button, session_state, component >>

\* app.py:72-115
RunSidebar ==
    /\ pc = "sidebar"
    /\ session_state' = IF button THEN Absent ELSE session_state
    /\ IF button /\ rerun_leaves_pass
       THEN /\ Rerun
            /\ hist' = [ hist EXCEPT !.runs = Inc(@) ]
            /\ UNCHANGED widgets
       ELSE /\ widgets' = IF widgets.drawn THEN widgets
                          ELSE [ drawn |-> TRUE,
                                 comunas |-> disponibles(df_original, "Comuna"),
                                 severidad |-> disponibles(df_original, "Severidad"),
                                 sexo |-> disponibles(df_original, "Sexo"),
                                 amp |-> {} ]
            /\ pc' = "filter"
            /\ button' = FALSE
            /\ hist' = hist
    /\ UNCHANGED << csv_file, geojson_ok, df_original, gdf_comunas, component,
                    df_filtrado, map_data, df_chart, view >>

\* app.py:118-129
RunFilter ==
    /\ pc = "filter"
    /\ df_filtrado' = [ set |-> TRUE, rows |-> filtrado(df_original, widgets) ]
    /\ view' = [ view EXCEPT !.metric = Len(df_filtrado'.rows) ]
    /\ pc' = "map"
    /\ UNCHANGED << csv_file, geojson_ok, df_original, gdf_comunas, widgets, button,
                    session_state, component, map_data, df_chart, hist >>

\* app.py:131-220.  The front end keeps the component instance, and the
\* object last clicked in it, for as long as the script hands st_folium the
\* same map under the same key; any other map is a new instance that has
\* no clicked object yet.  A complete run that draws no map drops it.
RunMap ==
    /\ pc = "map"
    /\ IF df_filtrado.rows = << >>
       THEN /\ view' = [ view EXCEPT !.no_results = TRUE ]
            /\ component' = NoComponent
            /\ map_data' = ""
            /\ pc' = "idle"
       ELSE LET m == mapa(df_filtrado.rows, session_state, gdf_comunas)
                c == IF component.id = m THEN component ELSE [ id |-> m, value |-> "" ]
            IN  /\ view' = [ view EXCEPT !.map = m ]
                /\ component' = c
                /\ map_data' = c.value
                /\ pc' = "click"
    /\ UNCHANGED << csv_file, geojson_ok, df_original, gdf_comunas, widgets, button,
                    session_state, df_filtrado, df_chart, hist >>

\* app.py:222-288.  map_data = "" is the None of a map nobody has clicked a
\* district of: the subscript raises TypeError and the hint is shown.  For a
\* district with rows the centre is stored and st.rerun() is called; as it
\* leaves the pass, the chart and the table below it are not reached.
RunClick ==
    /\ pc = "click"
    /\ LET dc == df_comuna(df_filtrado.rows, map_data)
       IN  IF map_data # "" /\ dc # << >>
           THEN /\ session_state' = center_of(dc)
                /\ IF rerun_leaves_pass
                   THEN /\ view' = [ view EXCEPT !.header = map_data ]
                        /\ Rerun
                        /\ df_chart' = df_chart
                        /\ hist' = [ hist EXCEPT !.runs = Inc(@), !.stored = TRUE,
                                                 !.after_store = "stored",
                                                 !.stored_comuna = map_data,
                                                 !.chart_seen = FALSE ]
                   ELSE /\ df_chart' = summarize(df_filtrado.rows, map_data)
                        /\ view' = [ view EXCEPT !.header = map_data, !.chart = TRUE,
                                                 !.table = TRUE, !.expander = TRUE ]
                        /\ pc' = "idle"
                        /\ button' = button
                        /\ hist' = [ hist EXCEPT !.stored = TRUE,
                                                 !.after_store = "stored",
                                                 !.stored_comuna = map_data,
                                                 !.chart_seen = TRUE ]
           ELSE /\ view' = [ view EXCEPT !.info = (map_data = ""), !.expander = TRUE ]
                /\ pc' = "idle"
                /\ UNCHANGED << session_state, button, df_chart, hist >>
    /\ UNCHANGED << csv_file, geojson_ok, df_original, gdf_comunas, widgets, component,
                    df_filtrado, map_data >>

----------------------------------------------------------------------------
(* The user.  Input is taken when the script is idle and the page shows     *)
(* the widgets, that is when the last run was not halted at app.py:69.      *)

Interactive == pc = "idle" /\ hist.halted = ""

Begin(kind, target) ==
    /\ pc' = "load"
    /\ hist' = [ hist EXCEPT !.input = [ kind |-> kind, target |-> target ],
                             !.runs = 1,
                             !.stored = FALSE,
                             !.session0 = session_state,
                             !.after_store = IF @ = "stored" THEN "later" ELSE @ ]

Toggle(S, x) == IF x \in S THEN S \ {x} ELSE S \cup {x}

\* a multiselect or a checkbox of the sidebar is changed
ChangeWidget ==
    /\ Interactive
    /\ \/ \E c \in disponibles(df_original, "Comuna") :
            widgets' = [ widgets EXCEPT !.comunas = Toggle(@, c) ]
       \/ \E x \in disponibles(df_original, "Severidad") :
            widgets' = [ widgets EXCEPT !.severidad = Toggle(@, x) ]
       \/ \E x \in disponibles(df_original, "Sexo") :
            widgets' = [ widgets EXCEPT !.sexo = Toggle(@, x) ]
       \/ \E c \in { "AMP_PULGAR" } :
            widgets' = [ widgets EXCEPT !.amp = Toggle(@, c) ]
    /\ Begin("widget", "")
    /\ UNCHANGED << csv_file, geojson_ok, df_original, gdf_comunas, button,
                    session_state, component, df_filtrado, map_data, df_chart, view >>

\* the reset button is pressed, app.py:76
PressReset ==
    /\ Interactive
    /\ button' = TRUE
    /\ Begin("reset", "")
    /\ UNCHANGED << csv_file, geojson_ok, df_original, gdf_comunas, widgets,
                    session_state, component, df_filtrado, map_data, df_chart, view >>

\* the map is clicked inside district d.  The click is reported the way the
\* script reads it, as map_data['last_active_object'] with the polygon's
\* Comuna_Corregida, and only when the boundary layer is on the map and has
\* a polygon there; any other click reruns the script with map_data as it was
ClickMap ==
    /\ Interactive
    /\ view.map.shown
    /\ \E d \in GeojsonComunas :
        /\ component' = IF view.map.bordes /\ d \in gdf_comunas.names
                        THEN [ component EXCEPT !.value = d ]
                        ELSE component
        /\ Begin("click", d)
    /\ UNCHANGED << csv_file, geojson_ok, df_original, gdf_comunas, widgets, button,
                    session_state, df_filtrado, map_data, df_chart, view >>

----------------------------------------------------------------------------
(* Input data *)

Flags(S) == [ c \in cols_amputacion |-> IF c \in S THEN 1 ELSE 0 ]

Row(comuna, severidad, sexo, amp, lat, lng) ==
    [ idx |-> 0, Comuna |-> comuna, Severidad |-> severidad, Sexo |-> sexo,
      amp |-> Flags(amp), lat |-> lat, lng |-> lng ]

\* the rows of a file or a frame, labelled by position as pandas does
Index(rows) == [ i \in DOMAIN rows |-> [ rows[i] EXCEPT !.idx = i ] ]

Tables(S) == UNION { [ 1..n -> S ] : n \in 0..MaxRows }

\* CSV cells: a negative decimal, an integer, an empty cell, a word, two points
CellLat == << "-", "4", "1", ".", "4" >>
CellLng == << "7", "3" >>
NumericCells == { CellLat, CellLng }
CellSamples == { CellLat, << >>, << "n", "o" >>, << "4", ".", "1", ".", "2" >> }

\* every name the mapping and the province list know, and one neither knows
ComunaSamples == DOMAIN COMUNA_MAPPING \cup COMUNAS_LLANQUIHUE \cup { "Osorno" }

RawSamples ==
    { Row(c, "Mayor", "F", {}, CellLat, CellLng) : c \in ComunaSamples }
    \cup { Row(c, "Menor", "M", {}, la, ln) :
             c \in { "Maullin", "Puerto Montt" }, la \in CellSamples, ln \in CellSamples }

RecordSamples ==
    { Row("Puerto Montt", "Mayor", "F", {}, Num(-414), Num(-729)),
      Row("Puerto Montt", "Mayor", "F", { "AMP_PULGAR" }, Num(-415), Num(-730)),
      Row("Puerto Montt", "Menor", "M", { "DESART_RODILLA" }, Num(-416), Num(-731)),
      Row("Puerto Montt", "Moderada", "F", { "AMP_DEDO_PIE" }, Num(-413), Num(-728)),
      Row("Puerto Montt", "Menor", "M", {}, Num(-412), Num(-727)),
      Row("Maullín", "Mayor", "M", {}, Num(-416), Num(-736)),
      Row("Maullín", "Menor", "F", { "AMP_PULGAR", "DESART_RODILLA" }, Num(-417), Num(-737)),
      Row("Maullín", "Mayor", "F", { "AMP_PULGAR" }, Num(-418), Num(-735)) }

WidgetSamples ==
    { [ drawn |-> TRUE, comunas |-> c, severidad |-> v, sexo |-> x, amp |-> a ] :
        c \in { {}, { "Puerto Montt" }, { "Puerto Montt", "Maullín" } },
        v \in { {}, { "Mayor" }, Severidades },
        x \in { {}, { "F" }, { "F", "M" } },
        a \in SUBSET { "AMP_PULGAR", "DESART_RODILLA" } }

\* the file the dashboard is run on
DashboardRows ==
    << Row("Puerto Montt", "Mayor", "F", { "AMP_PULGAR" }, << "-", "4", "1", ".", "4" >>,
           << "-", "7", "2", ".", "9" >>),
       Row("Maullin", "Menor", "M", {}, << "-", "4", "1", ".", "6" >>,
           << "-", "7", "3", ".", "6" >>),
       Row("Osorno", "Mayor", "M", {}, << "-", "4", "0", ".", "5" >>,
           << "-", "7", "3", ".", "1" >>),
       Row("Puerto Montt", "Menor", "M", {}, << "-", "4", "1", ".", "5" >>,
           << "-", "7", "3" >>),
       Row("Puerto Montt", "Mayor", "F", {}, << "n", "o" >>, << "-", "7", "3" >>) >>

----------------------------------------------------------------------------
(* Specifications *)

NoHist ==
    [ input |-> [ kind |-> "open", target |-> "" ],
      runs |-> 1,               \* runs started by the current interaction
      stored |-> FALSE,         \* a run of it stored the centre
      session0 |-> Absent,      \* session_state when it arrived
      halted |-> "",            \* "stop": st.stop(); "exception": uncaught
      after_store |-> "none",   \* "stored", then "later" from the next input on
      stored_comuna |-> "",     \* the district of the last stored centre
      chart_seen |-> FALSE ]    \* a chart was shown since the centre was stored

Fresh ==
    /\ gdf_comunas = load_shapes(FALSE, {})
    /\ button = FALSE
    /\ session_state = Absent
    /\ component = NoComponent
    /\ map_data = ""
    /\ df_chart = NoChart
    /\ view = EmptyView
    /\ hist = NoHist

\* the page is opened: the first run is about to start
Init ==
    /\ csv_file \in { [ status |-> "ok", rows |-> Index(DashboardRows) ],
                      [ status |-> "missing", rows |-> << >> ],
                      [ status |-> "unreadable", rows |-> << >> ] }
    /\ df_original = << >>
    /\ widgets = NoWidgets
    /\ df_filtrado = Unset
    /\ pc = "load"
    /\ geojson_ok \in BOOLEAN
    /\ Fresh

Next ==
    \/ RunLoad
    \/ RunSidebar
    \/ RunFilter
    \/ RunMap
    \/ RunClick
    \/ ChangeWidget
    \/ PressReset
    \/ ClickMap

Spec == Init /\ [][Next]_vars

\* load_data on every table of raw rows
InitNormalize ==
    /\ csv_file \in { [ status |-> "ok", rows |-> Index(t) ] : t \in Tables(RawSamples) }
                    \cup { [ status |-> "missing", rows |-> << >> ],
                           [ status |-> "unreadable", rows |-> << >> ] }
    /\ df_original = << >>
    /\ widgets = NoWidgets
    /\ df_filtrado = Unset
    /\ pc = "load"
    /\ geojson_ok = TRUE
    /\ Fresh

NextNormalize == RunLoad

SpecNormalize == InitNormalize /\ [][NextNormalize]_vars

\* the filter on every frame of records and every selection
InitFilter ==
    /\ csv_file = [ status |-> "ok", rows |-> << >> ]
    /\ df_original \in { Index(t) : t \in Tables(RecordSamples) }
    /\ widgets \in WidgetSamples
    /\ df_filtrado = Unset
    /\ pc = "filter"
    /\ geojson_ok = TRUE
    /\ Fresh

NextFilter == RunFilter

SpecFilter == InitFilter /\ [][NextFilter]_vars

\* the summary on every active subset and every clicked district
Summarize ==
    /\ pc = "summarize"
    /\ df_chart' = summarize(df_filtrado.rows, map_data)
    /\ pc' = "summarized"
    /\ UNCHANGED << csv_file, geojson_ok, df_original, gdf_comunas, widgets, button,
                    session_state, component, df_filtrado, map_data, view, hist >>

InitSummarize ==
    /\ csv_file = [ status |-> "ok", rows |-> << >> ]
    /\ geojson_ok = TRUE
    /\ df_original = << >>
    /\ gdf_comunas = load_shapes(TRUE, GeojsonComunas)
    /\ widgets = NoWidgets
    /\ button = FALSE
    /\ session_state = Absent
    /\ component = NoComponent
    /\ df_filtrado \in { [ set |-> TRUE, rows |-> Index(t) ] : t \in Tables(RecordSamples) }
    /\ map_data \in GeojsonComunas \cup { "" }
    /\ df_chart = NoChart
    /\ view = EmptyView
    /\ pc = "summarize"
    /\ hist = NoHist

NextSummarize == Summarize

SpecSummarize == InitSummarize /\ [][NextSummarize]_vars

----------------------------------------------------------------------------
(* Properties.  What a claim expects is written here from its own words,    *)
(* with SelectSeq and counting, and compared with what the script did.      *)

Loaded == pc # "load" /\ csv_file.status = "ok"

\* the output records that come from the raw row at position j
OutputOf(j) == { i \in DOMAIN df_original : df_original[i].idx = j }

BothNumeric(raw) == raw.lat \in NumericCells /\ raw.lng \in NumericCells

\* the row passes the selection w
Selected(r, w) ==
    /\ r.Comuna \in w.comunas
    /\ r.Severidad \in w.severidad
    /\ r.Sexo \in w.sexo
    /\ (w.amp = {} \/ \E c \in w.amp : r.amp[c] = 1)

ActiveSubset ==
    LET Keep(r) == Selected(r, widgets) IN SelectSeq(df_original, Keep)

\* the rows of the active subset in district d
RowsIn(d) ==
    LET InD(r) == r.Comuna = d IN SelectSeq(df_filtrado.rows, InD)

CountIn(d, sev) ==
    Cardinality({ i \in DOMAIN df_filtrado.rows :
                    /\ df_filtrado.rows[i].Comuna = d
                    /\ (sev = "" \/ df_filtrado.rows[i].Severidad = sev) })

\* the fraction f is the mean of the integers of s
IsMean(f, s) == f[2] > 0 /\ f[1] * Len(s) = SumSeq(s) * f[2]

\* C1: the filter returns exactly the records whose district, severity and
\* sex are selected and, when amputation flags are selected, that have at
\* least one of them, in the order of the input and none added or repeated.
C1_FilterExact ==
    df_filtrado.set => df_filtrado.rows = ActiveSubset

C1_Witness ==
    /\ df_filtrado.set
    /\ widgets.amp = { "AMP_PULGAR", "DESART_RODILLA" }
    /\ Len(df_original) = 2
    /\ Len(df_filtrado.rows) = 1
    /\ SumOver(df_filtrado.rows[1].amp, widgets.amp) = 1
    /\ df_filtrado.rows[1].idx = 2

C3_Original ==
    Loaded =>
        \A j \in DOMAIN csv_file.rows :
            csv_file.rows[j].Comuna \in DOMAIN COMUNA_MAPPING =>
                \E i \in OutputOf(j) :
                    df_original[i].Comuna = COMUNA_MAPPING[csv_file.rows[j].Comuna]

\* C3 amended: a record output for such a row carries the corrected name and
\* never the name as read; the row has a record exactly when the corrected
\* name is one of the nine districts and both coordinates are numeric.
C3_CorrectedName ==
    Loaded =>
        \A j \in DOMAIN csv_file.rows :
            LET raw == csv_file.rows[j]
            IN  raw.Comuna \in DOMAIN COMUNA_MAPPING =>
                    /\ \A i \in OutputOf(j) :
                            /\ df_original[i].Comuna = COMUNA_MAPPING[raw.Comuna]
                            /\ df_original[i].Comuna # raw.Comuna
                    /\ Cardinality(OutputOf(j)) <= 1
                    /\ OutputOf(j) # {} <=>
                            /\ COMUNA_MAPPING[raw.Comuna] \in COMUNAS_LLANQUIHUE
                            /\ BothNumeric(raw)

C3_Witness ==
    /\ Loaded
    /\ \E j \in DOMAIN csv_file.rows :
            /\ csv_file.rows[j].Comuna = "Maullin"
            /\ \E i \in OutputOf(j) : df_original[i].Comuna = "Maullín"
    /\ \E j \in DOMAIN csv_file.rows :
            /\ csv_file.rows[j].Comuna = "Rio Negro"
            /\ OutputOf(j) = {}

\* C4: every record load_data outputs has a district of the nine-name set,
\* and a raw row whose corrected district is outside it has no record.
C4_DistrictInSet ==
    Loaded =>
        /\ \A i \in DOMAIN df_original :
                df_original[i].Comuna \in
                    { "Puerto Montt", "Calbuco", "Cochamó", "Fresia", "Frutillar",
                      "Llanquihue", "Los Muermos", "Maullín", "Puerto Varas" }
        /\ \A j \in DOMAIN csv_file.rows :
                replace(csv_file.rows[j].Comuna) \notin COMUNAS_LLANQUIHUE
                    => OutputOf(j) = {}

C4_Witness ==
    /\ Loaded
    /\ Len(csv_file.rows) = 2
    /\ csv_file.rows[1].Comuna = "Osorno"
    /\ csv_file.rows[2].Comuna = "Cochamo"
    /\ Len(df_original) = 1
    /\ df_original[1].idx = 2

\* C5: every record load_data outputs has a numeric latitude and longitude,
\* and a raw row whose latitude or longitude is missing or not numeric has
\* no record, whatever its other fields.
C5_CoordinatesNumeric ==
    Loaded =>
        /\ \A i \in DOMAIN df_original : df_original[i].lat.ok /\ df_original[i].lng.ok
        /\ \A j \in DOMAIN csv_file.rows :
                ~BothNumeric(csv_file.rows[j]) => OutputOf(j) = {}

C5_Witness ==
    /\ Loaded
    /\ Len(csv_file.rows) = 2
    /\ csv_file.rows[1].Comuna = "Puerto Montt"
    /\ csv_file.rows[1].lat = CellLat
    /\ csv_file.rows[1].lng = << "n", "o" >>
    /\ csv_file.rows[2].Comuna = "Puerto Montt"
    /\ OutputOf(1) = {}
    /\ OutputOf(2) # {}
    /\ df_original[1].lat = Num(-414)

\* nothing past app.py:69 has run in the current pass
NothingProcessed ==
    /\ ~df_filtrado.set
    /\ view.metric = -1
    /\ ~view.map.shown
    /\ ~df_chart.made
    /\ view.header = ""
    /\ session_state = hist.session0

C7_BoundaryFailureUnaffected ==
    (~geojson_ok /\ csv_file.status = "ok" /\ pc = "idle") =>
        /\ hist.halted = ""
        /\ df_filtrado.rows = ActiveSubset
        /\ view.map.shown => Len(view.map.markers) = Len(ActiveSubset)
        /\ (hist.input.kind = "click" /\ RowsIn(hist.input.target) # << >>)
              => hist.stored

\* C8 as claimed: every click on a district of the map overwrites the
\* stored centre.
C8_Original ==
    (pc = "idle" /\ hist.input.kind = "click" /\ view.map.bordes) =>
        hist.stored /\ session_state.present

C8_Step ==
    /\ (pc = "click" /\ map_data # "" /\ RowsIn(map_data) # << >>) =>
          /\ session_state'.present
          /\ IsMean(session_state'.lat,
                    [ i \in DOMAIN RowsIn(map_data) |-> RowsIn(map_data)[i].lat.v ])
          /\ IsMean(session_state'.lng,
                    [ i \in DOMAIN RowsIn(map_data) |-> RowsIn(map_data)[i].lng.v ])
    /\ (session_state' # session_state /\ ~session_state'.present) =>
          (pc = "sidebar" /\ button /\ hist.input.kind = "reset")
    /\ (session_state' # session_state /\ session_state'.present) =>
          (pc = "click" /\ hist.input.kind = "click" /\ map_data = hist.input.target)

C8_Inv ==
    /\ hist.input.kind \in { "widget", "open" } => session_state = hist.session0
    /\ (pc = "idle" /\ hist.input.kind = "click" /\ view.map.bordes
            /\ RowsIn(hist.input.target) # << >>)
          => hist.stored /\ session_state.present
    /\ (pc = "idle" /\ hist.input.kind = "click" /\ RowsIn(hist.input.target) = << >>)
          => session_state = hist.session0
    /\ (pc = "idle" /\ hist.input.kind = "reset") => ~session_state.present

\* C8 amended: the stored centre is overwritten by every click on a district
\* that has a row in the active subset, with the mean coordinates of these
\* rows; a click on a district without such rows leaves it as it was; it is
\* removed only by the reset control; a widget change leaves it unchanged.
C8_CentreWrites == [][C8_Step]_vars /\ []C8_Inv

C8_Witness ==
    /\ pc = "idle"
    /\ hist.input.kind = "click"
    /\ hist.stored
    /\ hist.session0.present
    /\ session_state.present
    /\ session_state # hist.session0

\* C9: an interaction starts one run of the script, which runs to its end.
C9_OneRunPerInteraction == hist.runs = 1

\* a click whose reruns do not end: the third pass of one interaction
C9_RerunChain ==
    /\ hist.input.kind = "click"
    /\ hist.runs = MaxRuns
    /\ pc = "click"
    /\ map_data = hist.input.target
    /\ RowsIn(map_data) # << >>

\* C10: once a click has stored the centre of a district, the summary of
\* that district has been shown by the time the next interaction is done
\* (the district still having rows in the active subset).
C10_SummaryShownLater ==
    (/\ pc = "idle"
     /\ hist.after_store = "later"
     /\ hist.input.kind # "reset"
     /\ RowsIn(hist.stored_comuna) # << >>)
        => hist.chart_seen

\* no run ever draws the chart or the table of a district
SummaryNeverShown == ~view.chart /\ ~view.table /\ ~df_chart.made

====
